---- MODULE Spec2Model ----
(***************************************************************************)
(* Model of library/rpm.extract.py: the Ansible module rpm.extract.        *)
(*                                                                         *)
(* One invocation of run_module() is a sequence of steps over the process  *)
(* state (its locals, the working directory) and the filesystem (the       *)
(* destination path and the tree below it).  The harness invokes the       *)
(* module repeatedly with the same parameters; every invocation is a new   *)
(* process started in StartDir.                                            *)
(*                                                                         *)
(* Paths are sequences of one-character strings, None is the empty         *)
(* sequence (Python tests these values for truth only, so None and ""      *)
(* behave alike in run_module).                                            *)
(*                                                                         *)
(* Environment assumptions: StartDir and the chdir target exist and are    *)
(* writable, so os.chdir(chdir) succeeds and os.mkdir(dest) fails only     *)
(* when the path already exists.                                           *)
(***************************************************************************)
EXTENDS Integers, Sequences, FiniteSets, TLC

\* ------------------------------------------------------------------ bounds
\* Number of successive invocations of the module the harness makes.
MaxRuns == 2

\* Longest src the derivation of the destination name is tried on.
MaxLen == 5

\* ------------------------------------------------------------ path helpers
None == << >>

SLASH == "/"

Home == <<"/", "h">>

StartDir == <<"/", "s">>

IsAbs(p) == p # << >> /\ p[1] = SLASH

\* os.path.expanduser for "~" and "~/..." (the forms the inputs use).
ExpandUser(p) ==
    IF p # << >> /\ p[1] = "~" /\ (Len(p) = 1 \/ p[2] = SLASH)
    THEN Home \o Tail(p)
    ELSE p

\* Position of the last "/" of p, 0 when there is none.
RECURSIVE LastSlash(_, _)
LastSlash(p, i) ==
    IF i = 0 THEN 0
    ELSE IF p[i] = SLASH THEN i
    ELSE LastSlash(p, i - 1)

\* os.path.basename
Basename(p) == SubSeq(p, LastSlash(p, Len(p)) + 1, Len(p))

\* len(".rpm")
SuffixLen == Len(<<".", "r", "p", "m">>)

\* src[:-len(".rpm")]: the slice drops the last four characters, whatever
\* they are.
DropSuffix(p) == SubSeq(p, 1, Len(p) - SuffixLen)

\* dest = os.path.basename(src[:-len(".rpm")])
DefaultDest(s) == Basename(DropSuffix(s))

\* os.path.join(a, b)
Join(a, b) ==
    IF IsAbs(b) THEN b
    ELSE IF a = << >> \/ a[Len(a)] = SLASH THEN a \o b
    ELSE a \o <<SLASH>> \o b

\* --------------------------------------------------------------- the inputs
SrcPaths ==
    { <<"p", ".", "r", "p", "m">>,
      <<"~", "/", "p", ".", "r", "p", "m">> }

DestParams == { None, <<"o">> }

ChdirParams == { None, <<"/", "w">> }

NoName == ""

Names == { NoName, "known", "ghost" }

\* --------------------------------------------------- the identity database
\* Sentinel of os.chown: leave this id unchanged.
Unchanged == -1

PasswdDb == [ known |-> 1001 ]

GroupDb == [ known |-> 2002 ]

\* Variant of DefaultIds: the defaults are root's ids, not the sentinel.
DefaultIdsRoot == [ uid |-> 0, gid |-> 0 ]

\* uid = -1; gid = -1 (lines 202-203).
DefaultIds == [ uid |-> Unchanged, gid |-> Unchanged ]

\* Ownership of what the process itself creates (os.mkdir).
DefaultOwner == [ uid |-> 500, gid |-> 500 ]

\* Variant of Lookup: the KeyError is swallowed and the id keeps its
\* default.
LookupSwallowed(db, name) ==
    [ found |-> TRUE, id |-> IF name \in DOMAIN db THEN db[name] ELSE Unchanged ]

\* pwd.getpwnam(name).pw_uid / grp.getgrnam(name).gr_gid: the id, or
\* KeyError when the name is not in the database.
Lookup(db, name) ==
    IF name \in DOMAIN db
    THEN [ found |-> TRUE, id |-> db[name] ]
    ELSE [ found |-> FALSE, id |-> Unchanged ]

\* ----------------------------------------------------------- the filesystem
\* Entries below the destination, named relative to it; "." is the
\* destination directory itself.
Root == "."

Entries == { ".", "lf", "ld", "d", "d/f", "old" }

Parent ==
    [ e \in Entries |->
        CASE e = "d/f" -> "d"
          [] OTHER -> Root ]

\* dir: directory, file: regular file, lfile: symbolic link to a file,
\* ldir: symbolic link to a directory.
Type ==
    [ e \in Entries |->
        CASE e \in {".", "d"} -> "dir"
          [] e = "lf" -> "lfile"
          [] e = "ld" -> "ldir"
          [] OTHER -> "file" ]

\* The entries of a valid archive.
ArchiveEntries == { "lf", "ld", "d", "d/f" }

\* What a failing pipeline may have written before it failed.
PartialEntries == { {}, {"lf"} }

\* Ownership of an entry when it comes into being: cpio restores the
\* archive's ids where it may, so entries need not all be owned alike.
Owner0 ==
    [ e \in Entries |->
        IF e = "d/f" THEN [ uid |-> 0, gid |-> 0 ] ELSE DefaultOwner ]

EmptyTree == [ e \in {} |-> DefaultOwner ]

Absent == [ kind |-> "absent", tree |-> EmptyTree ]

Fresh(names) == [ e \in names |-> Owner0[e] ]

\* A set of entries is a tree when it holds the parent of each entry.
Closed(S) == \A e \in S : Parent[e] \in S

\* Variant of IsDir: os.path.isfile(dest).
IsDirAsIsFile(f) == f.kind = "file"

\* Variant of IsDir: os.path.exists(dest).
IsDirAsExists(f) == f.kind # "absent"

\* os.path.isdir(dest)
IsDir(f) == f.kind = "dir"

\* Variant of Exists: the directory is made with exist_ok, an existing
\* path is no error.
ExistsIgnored(f) == FALSE

\* os.path.lexists(dest): os.mkdir raises FileExistsError on it.
Exists(f) == f.kind # "absent"

\* The process's own files are invisible to it under another directory:
\* the archive a path denotes, seen from working directory `dir`.  A
\* relative path names the archive only from the directory the module was
\* invoked in.
Denotes(path, dir, arch) ==
    IF IsAbs(path) \/ dir = StartDir THEN arch ELSE "missing"

\* Variant of WorkDir: chdir is not honoured.
WorkDirStart(c) == StartDir

\* Lines 156-160: the working directory after the optional os.chdir(chdir).
WorkDir(c) == IF c # None THEN c ELSE StartDir

\* Variant of PipelineFails: the status shell.close() returns is not looked
\* at.
PipelineStatusIgnored(opened) == FALSE

\* Line 198: shell.close() is not None, the pipeline ended with a non-zero
\* status.
PipelineFails(opened) == opened # "good"

\* What the pipeline writes to its output (2>&1): cpio -v lists the
\* entries it extracts, a failing pipeline prints its diagnostics.
Output(opened) ==
    CASE opened = "good" -> << "lf", "ld", "d", "d/f" >>
      [] opened = "bad" -> << "cpio: premature end of archive" >>
      [] OTHER -> << "rpm2cpio: open failed",
                     "cpio: premature end of archive" >>

\* follow_symlinks=False (lines 223, 226).
FollowSymlinks == FALSE

\* The files the symbolic links of the archive point to; they lie outside
\* the destination.
Targets == [ e \in { "lf", "ld" } |-> DefaultOwner ]

\* The name of an entry as a path relative to the destination.
Relative ==
    [ e \in Entries |->
        CASE e = "." -> << >>
          [] e = "lf" -> << "l", "f" >>
          [] e = "ld" -> << "l", "d" >>
          [] e = "d" -> << "d" >>
          [] e = "d/f" -> << "d", "/", "f" >>
          [] OTHER -> << "o", "l", "d" >> ]

\* dirpath, or os.path.join(dirpath, filename), of an entry below root.
EntryPath(root, e) == IF e = Root THEN root ELSE Join(root, Relative[e])

\* Variant of ReportedPath: the path of the entry os.chown was denied on.
ReportedPathOfEntry(root, e) == EntryPath(root, e)

\* Line 228: the path the permission failure names.
ReportedPath(root, e) == root

\* ------------------------------------------------------------------- state
VARIABLES
    params,      \* module.params
    archive,     \* the file params.src names at invocation: "good" or "bad"
    check_mode,  \* module.check_mode
    src, dest, chdir, \* the locals of run_module
    result,      \* the result dictionary
    cwd,         \* the process working directory
    result_dir,
    uid, gid,
    walk,        \* the paths os.walk has still to hand to os.chown
    pc,          \* position in run_module
    fs,          \* the destination path: its kind and the tree below it
    out,         \* what the invocation reported
    log,         \* the system operations of this invocation, in order
    cmd_output,  \* what the pipeline printed, as read from the shell
    outside,     \* ownership of the files the symbolic links point to
    fs0,         \* fs when this invocation started
    prev,        \* the invocation before this one
    runs         \* invocations started

vars == << params, archive, check_mode, src, dest, chdir, result, cwd,
           result_dir, uid, gid, walk, pc, fs, out, log, cmd_output, outside,
           fs0, prev, runs >>

owner == params.owner

group == params.group

force == params.force

\* ------------------------------------------------------------ the records
NoOut == [ kind |-> "none" ]

\* module.exit_json(**result)
ExitJson(r) == [ kind |-> "exit" ] @@ r

\* module.fail_json(msg=..., **result)
FailJsonResult(text, arg, r) ==
    [ kind |-> "fail", msg |-> [ text |-> text, arg |-> arg ] ] @@ r

\* module.fail_json(msg=...)
FailJson(text, arg) ==
    [ kind |-> "fail", msg |-> [ text |-> text, arg |-> arg ] ]

\* An exception run_module does not catch.
Raised(exc) == [ kind |-> "exception", exc |-> exc ]

Op(name, path, u, g) == [ op |-> name, path |-> path, uid |-> u, gid |-> g ]

Logged(name, path) == Op(name, path, Unchanged, Unchanged)

\* ------------------------------------------------------------- predictions
\* Variant of Predict: force is not consulted.
PredictWithoutForce(isdir, f) == ~isdir

\* The check-mode branch (lines 172-178).
Predict(isdir, f) == IF isdir THEN (IF f THEN TRUE ELSE FALSE) ELSE TRUE

\* ------------------------------------------------------------------ chown
\* os.chown(path, uid, gid, follow_symlinks=False) on one entry.
ChownId(old, id) == IF id = Unchanged THEN old ELSE id

Chown(o, u, g) == [ uid |-> ChownId(o.uid, u), gid |-> ChownId(o.gid, g) ]

\* A fixed listing order of the entries (os.scandir order).
EntryOrder == << ".", "lf", "ld", "old", "d", "d/f" >>

\* The filenames os.walk reports for directory d: the entries that are
\* not directories when symbolic links are followed.
Filenames(tree, d) ==
    SelectSeq(EntryOrder,
              LAMBDA e : /\ e \in DOMAIN tree
                         /\ e # Root
                         /\ Parent[e] = d
                         /\ Type[e] \in {"file", "lfile"})

\* The directories os.walk visits, top-down: real directories only, as
\* followlinks is False.
Dirpaths(tree) ==
    SelectSeq(EntryOrder, LAMBDA e : e \in DOMAIN tree /\ Type[e] = "dir")

\* The paths handed to os.chown, in order: each dirpath, then its
\* filenames; dirnames are ignored.
RECURSIVE ChownPaths(_, _)
ChownPaths(tree, dirs) ==
    IF dirs = << >> THEN << >>
    ELSE <<Head(dirs)>> \o Filenames(tree, Head(dirs))
         \o ChownPaths(tree, Tail(dirs))

\* -------------------------------------------------------------------- Init
Init ==
    /\ params \in [ src : SrcPaths, dest : DestParams, chdir : ChdirParams,
                    owner : Names, group : Names, force : BOOLEAN ]
    /\ archive \in { "good", "bad" }
    /\ fs \in { Absent,
                [ kind |-> "file", tree |-> EmptyTree ],
                [ kind |-> "dir", tree |-> Fresh({Root, "old"}) ] }
    /\ check_mode = FALSE
    /\ src = None /\ dest = None /\ chdir = None
    /\ result = [ changed |-> FALSE ]
    /\ cwd = StartDir
    /\ result_dir = None
    /\ uid = DefaultIds.uid /\ gid = DefaultIds.gid
    /\ walk = << >>
    /\ pc = "idle"
    /\ out = NoOut
    /\ log = << >>
    /\ cmd_output = << >>
    /\ outside = Targets
    /\ fs0 = fs
    /\ prev = [ check_mode |-> FALSE, out |-> NoOut, fs0 |-> fs ]
    /\ runs = 0

\* ----------------------------------------------------------------- actions
\* Lines 108-161: a new process parses its arguments, derives the
\* destination name and changes into chdir.
Begin ==
    /\ pc \in { "idle", "done" }
    /\ runs < MaxRuns
    /\ runs' = runs + 1
    /\ prev' = [ check_mode |-> check_mode, out |-> out, fs0 |-> fs0 ]
    /\ fs0' = fs
    /\ \E c \in BOOLEAN : check_mode' = c
    /\ LET s == ExpandUser(params.src)
           d0 == IF params.dest # None THEN ExpandUser(params.dest) ELSE None
           c == IF params.chdir # None THEN ExpandUser(params.chdir) ELSE None
           d == IF d0 = None THEN DefaultDest(s) ELSE d0
           w == WorkDir(c)
       IN /\ src' = s
          /\ dest' = d
          /\ chdir' = c
          /\ result' = [ changed |-> FALSE, src |-> s, dest |-> d, chdir |-> c,
                         owner |-> owner, group |-> group, force |-> force ]
          /\ cwd' = w
          /\ result_dir' = Join(w, d)
    /\ uid' = DefaultIds.uid /\ gid' = DefaultIds.gid
    /\ walk' = << >>
    /\ out' = NoOut
    /\ log' = << >>
    /\ cmd_output' = << >>
    /\ pc' = "decide"
    /\ UNCHANGED << params, archive, outside, fs >>

\* Lines 171-180: check mode predicts and exits.
CheckMode ==
    /\ pc = "decide"
    /\ check_mode
    /\ result' = [ result EXCEPT !.changed = Predict(IsDir(fs), force) ]
    /\ out' = ExitJson(result')
    /\ pc' = "done"
    /\ UNCHANGED << params, archive, cmd_output, outside, check_mode, src, dest, chdir, cwd,
                    result_dir, uid, gid, walk, fs, log, fs0, prev, runs >>

\* Lines 182-186, force unset: the destination is there, nothing to do.
Skip ==
    /\ pc = "decide"
    /\ ~check_mode
    /\ IsDir(fs) /\ ~force
    /\ out' = ExitJson(result)
    /\ pc' = "done"
    /\ UNCHANGED << params, archive, cmd_output, outside, check_mode, src, dest, chdir, result,
                    cwd, result_dir, uid, gid, walk, fs, log, fs0, prev,
                    runs >>

\* Lines 182-184: shutil.rmtree(dest, ignore_errors=True).  Any entry may
\* fail to be deleted; what is left is still a tree.
Rmtree ==
    /\ pc = "decide"
    /\ ~check_mode
    /\ IsDir(fs) /\ force
    /\ \E left \in SUBSET DOMAIN fs.tree :
          /\ Closed(left)
          /\ fs' = IF left = {} THEN Absent
                   ELSE [ kind |-> "dir",
                          tree |-> [ e \in left |-> fs.tree[e] ] ]
    /\ log' = Append(log, Logged("rmtree", Root))
    /\ pc' = "mkdir"
    /\ UNCHANGED << params, archive, cmd_output, outside, check_mode, src, dest, chdir, result,
                    cwd, result_dir, uid, gid, walk, out, fs0, prev, runs >>

\* Line 182, the destination is not a directory.
NotDir ==
    /\ pc = "decide"
    /\ ~check_mode
    /\ ~IsDir(fs)
    /\ pc' = "mkdir"
    /\ UNCHANGED << params, archive, cmd_output, outside, check_mode, src, dest, chdir, result,
                    cwd, result_dir, uid, gid, walk, fs, out, log, fs0, prev,
                    runs >>

\* Lines 188-189: os.mkdir(dest); os.chdir(dest).
Mkdir ==
    /\ pc = "mkdir"
    /\ IF Exists(fs)
       THEN /\ out' = Raised("FileExistsError")
            /\ pc' = "done"
            /\ UNCHANGED << fs, cwd, log >>
       ELSE /\ fs' = [ kind |-> "dir", tree |-> fs.tree @@ Fresh({Root}) ]
            /\ cwd' = Join(cwd, dest)
            /\ log' = Append(log, Logged("mkdir", Root))
            /\ pc' = "unpack"
            /\ out' = out
    /\ UNCHANGED << params, archive, cmd_output, outside, check_mode, src, dest, chdir, result,
                    result_dir, uid, gid, walk, fs0, prev, runs >>

\* Lines 191-199: the pipeline runs in the working directory and opens the
\* file src names from there.  shell.close() gives the status of cpio, the
\* last command of the pipeline: cpio fails on the empty or broken stream
\* rpm2cpio hands it when the file is missing or no valid archive.
Unpack ==
    /\ pc = "unpack"
    /\ LET opened == Denotes(src, cwd, archive)
       IN /\ log' = Append(log, Logged("unpack", opened))
          /\ cmd_output' = Output(opened)
          /\ \E part \in PartialEntries \cup { ArchiveEntries } :
                /\ opened = "good" <=> part = ArchiveEntries
                /\ opened = "missing" => part = {}
                /\ fs' = [ fs EXCEPT !.tree = Fresh(part) @@ fs.tree ]
          /\ IF PipelineFails(opened)
             THEN /\ out' = FailJsonResult("failed to extract %s RPM file",
                                           src, result)
                  /\ pc' = "done"
             ELSE /\ pc' = "resolve"
                  /\ out' = out
    /\ UNCHANGED << params, archive, outside, check_mode, src, dest, chdir,
                    result, cwd, result_dir, uid, gid, walk, fs0, prev, runs >>

\* Lines 201-218: resolve the identities, then start the walk when an
\* owner or a group was asked for.
Resolve ==
    /\ pc = "resolve"
    /\ LET pw == IF owner # NoName THEN Lookup(PasswdDb, owner)
                 ELSE [ found |-> TRUE, id |-> DefaultIds.uid ]
           asked == owner = NoName \/ pw.found
           gr == IF group # NoName /\ asked THEN Lookup(GroupDb, group)
                 ELSE [ found |-> TRUE, id |-> DefaultIds.gid ]
       IN /\ log' = log
                    \o (IF owner # NoName
                        THEN << Logged("getpwnam", owner) >> ELSE << >>)
                    \o (IF group # NoName /\ asked
                        THEN << Logged("getgrnam", group) >> ELSE << >>)
          /\ uid' = pw.id
          /\ gid' = gr.id
          /\ IF ~pw.found
             THEN /\ out' = FailJson(
                       "owner '%s' not found in password database", owner)
                  /\ pc' = "done"
                  /\ walk' = walk
             ELSE IF ~gr.found
             THEN /\ out' = FailJson(
                       "group '%s' not found in group database", group)
                  /\ pc' = "done"
                  /\ walk' = walk
             ELSE /\ walk' = IF owner # NoName \/ group # NoName
                             THEN ChownPaths(fs.tree, Dirpaths(fs.tree))
                             ELSE << >>
                  /\ pc' = "chown"
                  /\ out' = out
    /\ UNCHANGED << params, archive, cmd_output, outside, check_mode, src, dest, chdir, result,
                    cwd, result_dir, fs, fs0, prev, runs >>

\* Variant of ChownStep: the PermissionError is caught inside the loop, the
\* failure is noted and the walk goes on with the next path.
ChownStepGoesOn ==
    /\ pc = "chown"
    /\ walk # << >>
    /\ LET e == Head(walk)
       IN /\ log' = Append(log, Op("chown", e, uid, gid))
          /\ walk' = Tail(walk)
          /\ pc' = pc
          /\ \/ /\ fs' = [ fs EXCEPT !.tree[e] = Chown(@, uid, gid) ]
                /\ out' = out
             \/ /\ out' = FailJson(
                     "failed to change permissions for path: %s [operation not permitted]",
                     ReportedPath(result_dir, e))
                /\ fs' = fs
    /\ UNCHANGED << params, archive, cmd_output, outside, check_mode, src,
                    dest, chdir, result, cwd, result_dir, uid, gid, fs0,
                    prev, runs >>

\* Lines 222-228: one os.chown of the walk; it succeeds or raises
\* PermissionError, which ends the run.
ChownStep ==
    /\ pc = "chown"
    /\ walk # << >>
    /\ LET e == Head(walk)
       IN /\ log' = Append(log, Op("chown", e, uid, gid))
          /\ \/ /\ IF FollowSymlinks /\ e \in DOMAIN outside
                   THEN /\ outside' = [ outside EXCEPT
                                          ![e] = Chown(@, uid, gid) ]
                        /\ fs' = fs
                   ELSE /\ fs' = [ fs EXCEPT !.tree[e] = Chown(@, uid, gid) ]
                        /\ outside' = outside
                /\ walk' = Tail(walk)
                /\ UNCHANGED << out, pc >>
             \/ /\ out' = FailJson(
                     "failed to change permissions for path: %s [operation not permitted]",
                     ReportedPath(result_dir, e))
                /\ pc' = "done"
                /\ UNCHANGED << fs, walk, outside >>
    /\ UNCHANGED << params, archive, cmd_output, check_mode, src, dest,
                    chdir, result, cwd, result_dir, uid, gid, fs0, prev,
                    runs >>

\* Lines 230-231.
Finish ==
    /\ pc = "chown"
    /\ walk = << >>
    /\ result' = [ result EXCEPT !.changed = TRUE ]
    /\ out' = ExitJson(result')
    /\ pc' = "done"
    /\ UNCHANGED << params, archive, cmd_output, outside, check_mode, src, dest, chdir, cwd,
                    result_dir, uid, gid, walk, fs, log, fs0, prev, runs >>

Next ==
    \/ Begin
    \/ CheckMode
    \/ Skip
    \/ Rmtree
    \/ NotDir
    \/ Mkdir
    \/ Unpack
    \/ Resolve
    \/ ChownStep
    \/ Finish

Spec == Init /\ [][Next]_vars

\* ----------------------------------------- the destination name, on its own
\* The characters src is made of.
Alphabet == { "a", ".", "r", "p", "m", SLASH }

\* Every src of up to MaxLen characters.
AnySrc == UNION { [ 1..k -> Alphabet ] : k \in 1..MaxLen }

\* The module is invoked with src alone; the destination is absent.
InitDerive ==
    /\ params \in [ src : AnySrc, dest : {None}, chdir : {None},
                    owner : {NoName}, group : {NoName}, force : {FALSE} ]
    /\ archive = "good"
    /\ fs = Absent
    /\ check_mode = FALSE
    /\ src = None /\ dest = None /\ chdir = None
    /\ result = [ changed |-> FALSE ]
    /\ cwd = StartDir
    /\ result_dir = None
    /\ uid = DefaultIds.uid /\ gid = DefaultIds.gid
    /\ walk = << >>
    /\ pc = "idle"
    /\ out = NoOut
    /\ log = << >>
    /\ cmd_output = << >>
    /\ outside = Targets
    /\ fs0 = fs
    /\ prev = [ check_mode |-> FALSE, out |-> NoOut, fs0 |-> fs ]
    /\ runs = 0

\* Lines 125-161 alone: the arguments are parsed and the name derived.
NextDerive == Begin

SpecDerive == InitDerive /\ [][NextDerive]_vars

\* ---------------------------------------------------------------- notions
Done == pc = "done"

\* This invocation is a real run that has ended, and so was the one before.
TwoRealRuns == Done /\ runs >= 2 /\ ~check_mode /\ ~prev.check_mode

\* The operations of this invocation that change the filesystem.
Mutations == { i \in DOMAIN log : log[i].op \in {"rmtree", "mkdir", "unpack", "chown"} }

Lookups == { i \in DOMAIN log : log[i].op \in {"getpwnam", "getgrnam"} }

Chowns == { i \in DOMAIN log : log[i].op = "chown" }

\* The request names an owner or a group the databases do not hold.
UnknownIdentity ==
    \/ owner # NoName /\ owner \notin DOMAIN PasswdDb
    \/ group # NoName /\ group \notin DOMAIN GroupDb

\* The tree a valid archive extracts to in an empty directory.
Extraction == Fresh({Root} \cup ArchiveEntries)

\* -------------------------------------------------------------------- C1
\* C1 as stated: of two successive real runs of a request with force=false
\* and an absolute src, the first of them starting without the destination, the first reports
\* changed=true, the second changed=false, and the second leaves the
\* destination as the first left it.
C1_TrueThenFalse ==
    (TwoRealRuns /\ ~force /\ prev.fs0.kind = "absent" /\ IsAbs(src)) =>
        /\ prev.out.kind = "exit" /\ prev.out.changed
        /\ out.kind = "exit" /\ ~out.changed
        /\ fs = fs0

\* C1, amended: when a real run of a request with force=false reports
\* changed=true, the next real run of the same request reports
\* changed=false, performs no operation on the filesystem and leaves the
\* destination exactly as the first run left it.
C1_Idempotent ==
    (TwoRealRuns /\ ~force /\ prev.out.kind = "exit" /\ prev.out.changed) =>
        /\ out.kind = "exit" /\ ~out.changed
        /\ log = << >>
        /\ fs = fs0

C1_Witness ==
    /\ TwoRealRuns /\ ~force
    /\ prev.out.kind = "exit" /\ prev.out.changed
    /\ prev.fs0.kind = "absent"
    /\ out.kind = "exit" /\ ~out.changed
    /\ fs.tree = Extraction

\* -------------------------------------------------------------------- C2
\* C2: the changed value a check-mode run returns equals the changed value
\* in the record of a real run of the same request (src absolute) from the
\* same starting state.
C2_DryRunFidelity ==
    ( /\ Done /\ runs >= 2 /\ prev.check_mode /\ ~check_mode
      /\ prev.fs0 = fs0 /\ IsAbs(src)
      /\ out.kind \in {"exit", "fail"} ) =>
        /\ "changed" \in DOMAIN out
        /\ out.changed = prev.out.changed

\* -------------------------------------------------------------------- C3
\* C3: a check-mode run creates, deletes, unpacks, resolves and re-owns
\* nothing, and ends by returning the predicted changed value: false for
\* an existing directory without force, true otherwise.
C3_CheckModeNoMutation ==
    check_mode =>
        /\ pc \in {"decide", "done"}
        /\ fs = fs0
        /\ log = << >>
        /\ uid = Unchanged /\ gid = Unchanged
        /\ Done => /\ out.kind = "exit"
                   /\ out.changed = (fs0.kind # "dir" \/ force)

C3_Witness ==
    /\ check_mode /\ Done
    /\ force /\ fs0.kind = "dir" /\ "old" \in DOMAIN fs.tree
    /\ out.kind = "exit" /\ out.changed

\* -------------------------------------------------------------------- C4
\* A real run from this state would change the filesystem.
WouldAlter == fs.kind = "absent" \/ (fs.kind = "dir" /\ force)

\* C4: every record the engine emits carries changed, and changed is true
\* exactly when the run altered the filesystem (in check mode: would alter
\* it).  Stated for a destination that is absent or a directory and an
\* absolute src.
C4_ChangedIffAltered ==
    ( /\ Done /\ out.kind \in {"exit", "fail"}
      /\ fs0.kind # "file" /\ IsAbs(src) ) =>
        /\ "changed" \in DOMAIN out
        /\ out.changed = (IF check_mode THEN WouldAlter ELSE Mutations # {})

\* -------------------------------------------------------------------- C5
\* C5: a real run with force=true of a valid request (a valid archive
\* named by an absolute path, identities that resolve) on an existing
\* destination directory reports changed=true and leaves the entries of a
\* fresh extraction, with nothing of the prior contents.
C5_ForceSemantics ==
    ( /\ Done /\ ~check_mode /\ force /\ fs0.kind = "dir"
      /\ archive = "good" /\ IsAbs(src) /\ ~UnknownIdentity ) =>
        /\ out.kind = "exit" /\ out.changed
        /\ DOMAIN fs.tree = DOMAIN Extraction
        /\ "old" \notin DOMAIN fs.tree

\* -------------------------------------------------------------------- C6
\* C6: src names a valid archive by a relative path, nothing else is set,
\* the destination is absent: the real run creates the directory, the
\* pipeline opens the archive src named at invocation, the directory holds
\* its entries and the run reports changed=true.
C6_RelativeSrc ==
    ( /\ Done /\ ~check_mode
      /\ params.src = <<"p", ".", "r", "p", "m">> /\ archive = "good"
      /\ params.dest = None /\ params.chdir = None
      /\ owner = NoName /\ group = NoName /\ ~force
      /\ fs0.kind = "absent" ) =>
        /\ result_dir = Join(StartDir, <<"p">>)
        /\ \E i \in DOMAIN log : log[i].op = "unpack" /\ log[i].path = "good"
        /\ fs.tree = Extraction
        /\ out.kind = "exit" /\ out.changed

\* -------------------------------------------------------------------- C7
\* C7 as stated: a destination that is a non-directory file is handled as an
\* existing directory is: without force a no-op reporting changed=false,
\* with force a delete and re-extraction reporting changed=true, in check
\* mode the same predictions.
C7_FileAsDirectory ==
    (Done /\ fs0.kind = "file") =>
        IF check_mode THEN out.kind = "exit" /\ out.changed = force
        ELSE IF ~force THEN out.kind = "exit" /\ ~out.changed /\ log = << >>
        ELSE log # << >> /\ log[1].op = "rmtree"

\* C7, amended: a destination that is a non-directory file is handled as
\* an absent one is, whatever force says: check mode predicts
\* changed=true; a real run deletes nothing and goes on to os.mkdir, which
\* raises FileExistsError; the file stays and nothing is extracted.
C7_FileAsAbsent ==
    (Done /\ fs0.kind = "file") =>
        IF check_mode THEN out.kind = "exit" /\ out.changed
        ELSE /\ out = Raised("FileExistsError")
             /\ log = << >>
             /\ fs = fs0

C7_Witness ==
    /\ Done /\ fs0.kind = "file" /\ ~check_mode /\ force
    /\ out.kind = "exception"

\* -------------------------------------------------------------------- C8
\* C8: identities are resolved only after the unpack of this run has
\* succeeded; when the owner or the group is not found the run ends in a
\* fatal failure naming it, the extracted tree stays as extracted and no
\* os.chown is made.
C8_UnknownIdentity ==
    /\ Lookups # {} =>
          \E i \in DOMAIN log :
             /\ log[i].op = "unpack" /\ log[i].path = "good"
             /\ \A j \in Lookups : i < j
    /\ UnknownIdentity => Chowns = {}
    /\ (UnknownIdentity /\ Lookups # {}) =>
          /\ Done
          /\ out.kind = "fail"
          /\ out.msg.arg = (IF owner # NoName /\ owner \notin DOMAIN PasswdDb
                            THEN owner ELSE group)
          /\ fs.tree = Extraction

C8_Witness ==
    /\ Done /\ owner = "known" /\ group = "ghost"
    /\ Cardinality(Lookups) = 2
    /\ out.kind = "fail" /\ out.msg.arg = "ghost"
    /\ fs.tree = Extraction

\* -------------------------------------------------------------------- C9
EchoedFields == { "src", "dest", "chdir", "owner", "group", "force" }

\* C9: every failure record holds a message and the echoed request fields
\* of the success record.
C9_FailureEcho ==
    (Done /\ out.kind = "fail") =>
        /\ "msg" \in DOMAIN out
        /\ EchoedFields \subseteq DOMAIN out
        /\ \A k \in EchoedFields : out[k] = result[k]

\* ------------------------------------------------------------------- C10
\* C10: with only owner requested every os.chown passes the sentinel as
\* gid and every entry keeps the group id it had after extraction; with
\* only group requested the same holds of uid.
C10_OwnershipScoping ==
    /\ (owner # NoName /\ group = NoName) =>
          /\ \A i \in Chowns : log[i].gid = Unchanged
          /\ \A e \in DOMAIN fs.tree : fs.tree[e].gid = Owner0[e].gid
    /\ (group # NoName /\ owner = NoName) =>
          /\ \A i \in Chowns : log[i].uid = Unchanged
          /\ \A e \in DOMAIN fs.tree : fs.tree[e].uid = Owner0[e].uid

C10_Witness ==
    /\ Done /\ owner = "known" /\ group = NoName
    /\ out.kind = "exit" /\ out.changed
    /\ Cardinality(Chowns) >= 4
    /\ fs.tree["d/f"] = [ uid |-> PasswdDb.known, gid |-> Owner0["d/f"].gid ]
    /\ fs.tree[Root] = [ uid |-> PasswdDb.known, gid |-> Owner0[Root].gid ]

\* ------------------------------------------------------------------- C11
\* The run made its chown pass and no os.chown was denied.
PassCompleted ==
    /\ Done /\ ~check_mode
    /\ owner # NoName \/ group # NoName
    /\ out.kind = "exit" /\ out.changed

\* Entry e is owned as the request asks.
OwnedAsRequested(e) ==
    /\ owner # NoName => fs.tree[e].uid = PasswdDb[owner]
    /\ group # NoName => fs.tree[e].gid = GroupDb[group]

\* C11: after a chown pass without a permission failure every entry of the
\* destination tree (root, subdirectory, file, link to a file, link to a
\* directory) has the requested ids, and nothing outside the tree (no
\* link target) has changed ownership.
C11_EveryEntryOwned ==
    PassCompleted =>
        /\ \A e \in DOMAIN fs.tree : OwnedAsRequested(e)
        /\ outside = Targets

\* ------------------------------------------------------------------- C12
\* C12: a real run that finds the destination directory and has
\* force=false changes nothing and resolves no identity, whatever owner
\* and group ask for, and returns changed=false.
C12_PresentNoForceNoOp ==
    (~check_mode /\ pc # "idle" /\ fs0.kind = "dir" /\ ~force) =>
        /\ pc \in {"decide", "done"}
        /\ fs = fs0
        /\ outside = Targets
        /\ log = << >>
        /\ uid = Unchanged /\ gid = Unchanged
        /\ Done => out.kind = "exit" /\ ~out.changed

C12_Witness ==
    /\ Done /\ ~check_mode /\ ~force
    /\ fs0.kind = "dir" /\ "old" \in DOMAIN fs0.tree
    /\ owner = "ghost" /\ group = "known"
    /\ out.kind = "exit" /\ ~out.changed

\* ------------------------------------------------------------------- C13
\* C13: over successive runs of a request with force=false that began
\* without the destination (src absolute), a real run that returns
\* changed=false finds the destination holding the whole extraction, every
\* entry owned as requested.
C13_UnchangedMeansConverged ==
    ( /\ Done /\ runs >= 2 /\ ~check_mode /\ ~force
      /\ prev.fs0.kind = "absent" /\ IsAbs(src)
      /\ out.kind = "exit" /\ ~out.changed ) =>
        /\ DOMAIN fs.tree = DOMAIN Extraction
        /\ \A e \in DOMAIN fs.tree : OwnedAsRequested(e)

\* ------------------------------------------------------------------- C14
Unpacks == { i \in DOMAIN log : log[i].op = "unpack" }

\* The pipeline of this run has failed.
UnpackFailed == \E i \in Unpacks : log[i].path # "good"

\* C14: when the pipeline fails the run ends at once in a fatal failure:
\* the failed unpack is the last operation of the run and its only unpack,
\* no identity is resolved, no ownership changed, and the directory the run
\* created stays, with whatever the pipeline wrote.
C14_UnpackFailureAborts ==
    UnpackFailed =>
        /\ Done
        /\ out.kind = "fail"
        /\ out.msg.text = "failed to extract %s RPM file"
        /\ Unpacks = { Len(log) }
        /\ Lookups = {} /\ Chowns = {}
        /\ uid = Unchanged /\ gid = Unchanged
        /\ fs.kind = "dir"
        /\ DOMAIN fs.tree \in { {Root} \cup part : part \in PartialEntries }

C14_Witness ==
    /\ Done /\ UnpackFailed
    /\ owner = "known" /\ group = "known"
    /\ fs.tree = Fresh({Root, "lf"})
    /\ out.kind = "fail"

\* ------------------------------------------------------------------- C15
\* C15: the failure record of a failed pipeline (src absolute) carries the
\* text captured from it.
C15_DiagnosticReported ==
    (Done /\ UnpackFailed /\ IsAbs(src) /\ out.kind = "fail") =>
        \/ out.msg.arg = cmd_output
        \/ "cmd_output" \in DOMAIN out

\* ------------------------------------------------------------------- C16
PermissionText ==
    "failed to change permissions for path: %s [operation not permitted]"

\* The run has reported a permission failure.
PermissionFailed == out.kind = "fail" /\ out.msg.text = PermissionText

\* The entries os.chown was called on before the last call of the run.
Before == { log[i].path : i \in { j \in Chowns : j < Len(log) } }

\* C16: at the first denied os.chown the walk stops and the run ends in a
\* permission failure: the denied call is the last operation of the run,
\* the entries chowned before it keep their new ownership and every other
\* entry keeps the ownership extraction gave it.
C16_WalkStopsAtDenial ==
    PermissionFailed =>
        /\ Done
        /\ log[Len(log)].op = "chown"
        /\ walk # << >> /\ Head(walk) = log[Len(log)].path
        /\ \A e \in DOMAIN fs.tree :
              fs.tree[e] = IF e \in Before THEN Chown(Owner0[e], uid, gid)
                           ELSE Owner0[e]

C16_Witness ==
    /\ Done /\ PermissionFailed
    /\ owner = "known" /\ group = "known"
    /\ log[Len(log)].path = "d"
    /\ Before = { Root, "lf" }
    /\ fs.tree["lf"].uid = PasswdDb.known
    /\ fs.tree["d/f"] = Owner0["d/f"]

\* ------------------------------------------------------------------- C17
\* The entry the last os.chown of the run was called on.
DeniedEntry == log[Len(log)].path

\* C17 as stated: the permission failure names the path of the entry the
\* denial occurred on.
C17_ReportsDeniedEntry ==
    (Done /\ PermissionFailed) =>
        out.msg.arg = EntryPath(Join(WorkDir(chdir), dest), DeniedEntry)

\* C17, amended: the permission failure names the destination root
\* (result_dir, the directory the walk started from), whichever entry the
\* denial occurred on.
C17_ReportsRoot ==
    (Done /\ PermissionFailed) =>
        out.msg.arg = Join(WorkDir(chdir), dest)

C17_Witness ==
    /\ Done /\ PermissionFailed
    /\ DeniedEntry = "d/f"
    /\ params.chdir # None /\ params.dest = None
    /\ out.msg.arg = << "/", "w", "/", "p" >>

\* ------------------------------------------------------------------- C18
Suffix == << ".", "r", "p", "m" >>

\* p ends in ".rpm".
EndsInSuffix(p) ==
    Len(p) >= Len(Suffix)
    /\ SubSeq(p, Len(p) - Len(Suffix) + 1, Len(p)) = Suffix

\* The base name of p with a trailing ".rpm" removed, when it has one.
Stem(p) ==
    LET b == Basename(p)
    IN IF EndsInSuffix(b) THEN SubSeq(b, 1, Len(b) - Len(Suffix)) ELSE b

\* C18: with dest not supplied the derived name is the base name of src
\* without a trailing ".rpm", nothing is removed from a name that does not
\* end in ".rpm", and the name is one non-empty path segment (for a src
\* whose base name has something besides the suffix).
C18_SuffixDerivation ==
    (pc = "decide" /\ params.dest = None) =>
        /\ dest = Stem(src)
        /\ result.dest = dest
        /\ Stem(src) # << >> =>
              dest # << >> /\ \A i \in DOMAIN dest : dest[i] # SLASH

\* ------------------------------------------------------------------- C19
\* The directory the run resolves the destination in, and the destination.
BaseDir == IF params.chdir # None THEN params.chdir ELSE StartDir

DestDir == BaseDir \o << SLASH >> \o dest

\* C19: when the pipeline is about to be invoked the working directory is
\* the destination directory, this run has just created it and it is
\* empty (so it never holds what a forced delete left behind); a run
\* invokes the pipeline at most once, right after its os.mkdir, and not at
\* all in check mode or in a no-op run.
C19_UnpackInFreshDirectory ==
    /\ pc = "unpack" =>
          /\ ~check_mode
          /\ cwd = DestDir
          /\ log # << >> /\ log[Len(log)].op = "mkdir"
          /\ fs = [ kind |-> "dir", tree |-> Fresh({Root}) ]
          /\ Unpacks = {}
    /\ Cardinality(Unpacks) <= 1
    /\ Unpacks # {} =>
          /\ ~check_mode
          /\ ~(fs0.kind = "dir" /\ ~force)
          /\ \E i \in DOMAIN log : log[i].op = "mkdir" /\ i + 1 \in Unpacks

C19_Witness ==
    /\ pc = "unpack"
    /\ force /\ fs0.kind = "dir" /\ "old" \in DOMAIN fs0.tree
    /\ cwd = << "/", "w", "/", "o" >>

\* ------------------------------------------------------------------- C20
\* C20: the working directory is never restored: a run that reached
\* extraction ends in the destination directory, any other run (check
\* mode, no-op, os.mkdir refused) ends in chdir when it was given and in
\* the directory the process started in otherwise.
C20_WorkingDirectoryLeft ==
    Done => cwd = IF Unpacks # {} THEN DestDir ELSE BaseDir

C20_Witness ==
    /\ Done /\ Unpacks # {}
    /\ params.chdir # None /\ params.dest = None
    /\ cwd = << "/", "w", "/", "p" >>

====
